---------------------------- MODULE Spec2Model ----------------------------
(* chrona: HTTP request logger middleware for express (src/index.ts).      *)
(*                                                                         *)
(* Strings are modelled as sequences of one-character strings, so that the *)
(* regular expressions of the source (split, replace, trim) are computed   *)
(* character by character.  A rendered line is modelled as the sequence of *)
(* its space-separated segments (the array the source joins with " "),     *)
(* each segment a record [color, text] where text is the list of pieces    *)
(* whose concatenation is the segment's text.                              *)
EXTENDS Integers, Sequences, FiniteSets, TLC

(***************************************************************************)
(* Characters                                                              *)
(***************************************************************************)

\* the letters matched by [a-z] under the i flag of regexes.tokenFormat
Letters ==
  { "a", "b", "c", "d", "e", "f", "g", "h", "i", "j", "k", "l", "m",
    "n", "o", "p", "q", "r", "s", "t", "u", "v", "w", "x", "y", "z",
    "A", "B", "C", "D", "E", "F", "G", "H", "I", "J", "K", "L", "M",
    "N", "O", "P", "Q", "R", "S", "T", "U", "V", "W", "X", "Y", "Z" }

\* the character class [a-z\-_] of regexes.tokenFormat, case-insensitive
IsNameChar(c) == c \in Letters \cup { "-", "_" }

\* the characters matched by \s
IsSpace(c) == c \in { " ", "\t", "\n" }

\* the characters matched by regexes.tokenWithoutBrackets
IsBracket(c) == c \in { "[", "]" }

(***************************************************************************)
(* The token vocabulary                                                    *)
(***************************************************************************)

tIncoming == <<":", "i", "n", "c", "o", "m", "i", "n", "g">>
tRemoteAddress ==
  <<":", "r", "e", "m", "o", "t", "e", "-", "a", "d", "d", "r", "e", "s", "s">>
tDate == <<":", "d", "a", "t", "e">>
tMethod == <<":", "m", "e", "t", "h", "o", "d">>
tUrl == <<":", "u", "r", "l">>
tHttpVersion ==
  <<":", "h", "t", "t", "p", "-", "v", "e", "r", "s", "i", "o", "n">>
tStatus == <<":", "s", "t", "a", "t", "u", "s">>
tContentLength ==
  <<":", "c", "o", "n", "t", "e", "n", "t", "-", "l", "e", "n", "g", "t", "h">>
tResponseTime ==
  <<":", "r", "e", "s", "p", "o", "n", "s", "e", "-", "t", "i", "m", "e">>
tReferrer == <<":", "r", "e", "f", "e", "r", "r", "e", "r">>
tUserAgent == <<":", "u", "s", "e", "r", "-", "a", "g", "e", "n", "t">>

\* const TOKENS
TOKENS ==
  << tIncoming, tRemoteAddress, tDate, tMethod, tUrl, tHttpVersion,
     tStatus, tContentLength, tResponseTime, tReferrer, tUserAgent >>

\* Array.prototype.includes
includes(arr, x) == \E i \in 1..Len(arr) : arr[i] = x

\* const DEFAULT_FORMAT
DEFAULT_FORMAT ==
  tIncoming \o <<" ">> \o tMethod \o <<" ">> \o tUrl \o <<" ">> \o tStatus
    \o <<" ">> \o tResponseTime \o <<" ">> \o tContentLength

(***************************************************************************)
(* String helpers used by extractTokens                                    *)
(***************************************************************************)

RECURSIVE removeChars(_, _, _)
\* s.replace(/<class>/g, ""): isSp selects \s, otherwise [ and ]
removeChars(s, isSp, i) ==
  IF i > Len(s) THEN <<>>
  ELSE LET drop == IF isSp THEN IsSpace(s[i]) ELSE IsBracket(s[i])
       IN  (IF drop THEN <<>> ELSE <<s[i]>>) \o removeChars(s, isSp, i + 1)

\* token.replace(/\s/g, "")
stripSpaces(s) == removeChars(s, TRUE, 1)

\* token.replace(regexes.tokenWithoutBrackets, "")
stripBrackets(s) == removeChars(s, FALSE, 1)

\* token.trim() !== ""
trimNonEmpty(s) == \E i \in 1..Len(s) : ~IsSpace(s[i])

\* token.match(regexes.tokenWithoutBrackets) is not null
hasBracket(s) == \E i \in 1..Len(s) : IsBracket(s[i])

\* end of a match of :\[[^\]]+\] starting at i, or 0
bracketMatchEnd(s, i) ==
  IF i + 3 <= Len(s) /\ s[i] = ":" /\ s[i + 1] = "[" /\ s[i + 2] # "]"
  THEN LET closes == { k \in (i + 3)..Len(s) : s[k] = "]" }
       IN  IF closes = {} THEN 0
           ELSE CHOOSE k \in closes : \A j \in closes : k <= j
  ELSE 0

\* end of a match of :[a-z\-_]+ (flag i) starting at i, or 0
bareMatchEnd(s, i) ==
  IF i + 1 <= Len(s) /\ s[i] = ":" /\ IsNameChar(s[i + 1])
  THEN LET stops == { k \in (i + 1)..Len(s) : ~IsNameChar(s[k]) }
       IN  IF stops = {} THEN Len(s)
           ELSE (CHOOSE k \in stops : \A j \in stops : k <= j) - 1
  ELSE 0

\* end of a match of regexes.tokenFormat starting at i, or 0: the bracketed
\* alternative is tried first
tokenFormatMatchEnd(s, i) ==
  IF bracketMatchEnd(s, i) # 0 THEN bracketMatchEnd(s, i)
  ELSE bareMatchEnd(s, i)

RECURSIVE splitFrom(_, _, _)
\* format.split(regexes.tokenFormat), scanning from i with the current
\* unmatched piece starting at from: the pieces between the matches and,
\* because of the capture group, the matches themselves
splitFrom(s, i, from) ==
  IF i > Len(s) THEN << SubSeq(s, from, Len(s)) >>
  ELSE LET e == tokenFormatMatchEnd(s, i)
       IN  IF e # 0
           THEN << SubSeq(s, from, i - 1), SubSeq(s, i, e) >>
                  \o splitFrom(s, e + 1, e + 1)
           ELSE splitFrom(s, i + 1, from)

\* format.split(regexes.tokenFormat)
split(s) == splitFrom(s, 1, 1)

RECURSIVE SelectIdx(_, _, _)
SelectIdx(seq, keep(_), i) ==
  IF i > Len(seq) THEN <<>>
  ELSE (IF keep(seq[i]) THEN <<seq[i]>> ELSE <<>>) \o SelectIdx(seq, keep, i + 1)

\* Array.prototype.filter
filter(seq, keep(_)) == SelectIdx(seq, keep, 1)

\* Array.prototype.map
map(seq, f(_)) == [i \in 1..Len(seq) |-> f(seq[i])]


(***************************************************************************)
(* Rendered text                                                           *)
(***************************************************************************)

\* a segment of a line: chalk.<color>(text), text given as its pieces;
\* color "none" is a string no chalk function was applied to
Cell(color, text) == [color |-> color, text |-> text]

\* the placeholder util.format substitutes
placeholder == Cell("none", <<"%s">>)

\* the table without its entry for 7
colorCodesWithoutSeven ==
  [s \in {0, 1, 2, 3, 4, 5} |->
     CASE s = 0 -> "yellow"
       [] s = 1 -> "green"
       [] s = 2 -> "green"
       [] s = 3 -> "cyan"
       [] s = 4 -> "yellow"
       [] s = 5 -> "red"]

\* const colorCodes
colorCodes ==
  [s \in {0, 1, 7, 2, 3, 4, 5} |->
     CASE s = 0 -> "yellow"
       [] s = 1 -> "green"
       [] s = 7 -> "magenta"
       [] s = 2 -> "green"
       [] s = 3 -> "cyan"
       [] s = 4 -> "yellow"
       [] s = 5 -> "red"]

\* the keys of const chalkColorsMap
chalkColorsMap ==
  { "magenta", "red", "yellow", "cyan", "green", "blue", "white", "gray",
    "grey", "magentaBright", "redBright", "greenBright", "yellowBright",
    "blueBright", "cyanBright", "whiteBright" }

\* function colorizedFn, for a colour given by name
colorizedFn(color) == IF color \in chalkColorsMap THEN color ELSE "gray"

(***************************************************************************)
(* Numbers as text                                                         *)
(***************************************************************************)

\* the last three digits of a number that has more, zero-padded
lastThree(n) ==
  LET r == n % 1000
  IN  IF r < 10 THEN <<"00", ToString(r)>>
      ELSE IF r < 100 THEN <<"0", ToString(r)>>
      ELSE <<ToString(r)>>

RECURSIVE groupThousands(_)
\* number[0].replace(regexes.number, "$1,") on the decimal digits of n
groupThousands(n) ==
  IF n < 1000 THEN <<ToString(n)>>
  ELSE groupThousands(n \div 1000) \o <<",">> \o lastThree(n)

\* function humanize on `${n}${unit}` (n a non-negative integer): the
\* text holds no ".", so split/join leave one part whose digits are grouped
humanize(n, unit) == groupThousands(n) \o <<unit>>

\* the colours of the elapsed time with 50 and 100 on the lower side
getColorForTimeInclusive(t) ==
  IF (~t.nan) /\ t.ms <= 50 THEN "green"
  ELSE IF (~t.nan) /\ t.ms <= 100 THEN "magenta"
  ELSE "red"

\* function getColorForTime; t is [nan, ms]
getColorForTime(t) ==
  IF (~t.nan) /\ t.ms < 50 THEN "green"
  ELSE IF (~t.nan) /\ t.ms < 100 THEN "magenta"
  ELSE "red"

\* function time: start is Number(header), [nan, ms]; NaN compares false
\* with everything, so a NaN delta takes the seconds branch and prints NaNs
time(start, now) ==
  IF start.nan
  THEN [time |-> <<"NaN", "s">>, delta |-> [nan |-> TRUE, ms |-> 0]]
  ELSE LET delta == now - start.ms
       IN  [time |-> IF delta < 10000 THEN humanize(delta, "ms")
                     ELSE humanize((delta + 500) \div 1000, "s"),
            delta |-> [nan |-> FALSE, ms |-> delta]]

\* function timestamp: local date and time of the clock, to the second
timestamp(now) == <<"date@", ToString(now \div 1000)>>

(***************************************************************************)
(* IP literals: regexes.ipv4, regexes.ipv6, function ip                    *)
(*                                                                         *)
(* A header value or an address is a sequence of one-character strings,    *)
(* the empty sequence standing for an absent (undefined) or empty value.   *)
(* A regular expression is computed as the set of positions its matches    *)
(* can have reached: the expression matches when one of them is the end.   *)
(* A position is the index of the next character to read.                  *)
(***************************************************************************)

Digits == { "0", "1", "2", "3", "4", "5", "6", "7", "8", "9" }

\* [\dA-F] under the i flag
HexDigits == Digits \cup { "a", "b", "c", "d", "e", "f",
                           "A", "B", "C", "D", "E", "F" }

\* \w
IsWordChar(c) == c \in Digits \/ c \in Letters \/ c = "_"

\* the character of s at index i, "" outside of s
charAt(s, i) == IF i >= 1 /\ i <= Len(s) THEN s[i] ELSE ""

\* \b before the character at index n
wordBoundary(s, n) == IsWordChar(charAt(s, n - 1)) # IsWordChar(charAt(s, n))

\* the upper-case form of a character of an address
upper(c) ==
  CASE c = "a" -> "A" [] c = "b" -> "B" [] c = "c" -> "C"
    [] c = "d" -> "D" [] c = "e" -> "E" [] c = "f" -> "F"
    [] OTHER -> c

\* a backreference holding t matches at position n (case-insensitive);
\* a group that did not take part holds the empty text and matches
matchesAt(s, n, t) ==
  /\ n + Len(t) - 1 <= Len(s)
  /\ \A i \in 1..Len(t) : upper(s[n + i - 1]) = upper(t[i])

\* the positions after a match of one octet alternative
\* \d|[1-9]\d|1\d{2}|2[0-4]\d|25[0-5] starting at n
octetEnds(s, n) ==
  LET c1 == charAt(s, n)
      c2 == charAt(s, n + 1)
      c3 == charAt(s, n + 2)
  IN  (IF c1 \in Digits THEN { n + 1 } ELSE {})
        \cup (IF c1 \in Digits \ { "0" } /\ c2 \in Digits
              THEN { n + 2 } ELSE {})
        \cup (IF c1 = "1" /\ c2 \in Digits /\ c3 \in Digits
              THEN { n + 3 } ELSE {})
        \cup (IF c1 = "2" /\ c2 \in { "0", "1", "2", "3", "4" }
                 /\ c3 \in Digits
              THEN { n + 3 } ELSE {})
        \cup (IF c1 = "2" /\ c2 = "5"
                 /\ c3 \in { "0", "1", "2", "3", "4", "5" }
              THEN { n + 3 } ELSE {})

\* the positions after (?:octet\.) repeated k times from the positions ps
RECURSIVE dottedOctets(_, _, _)
dottedOctets(s, ps, k) ==
  IF k = 0 THEN ps
  ELSE dottedOctets(s,
         UNION { { e + 1 : e \in { x \in octetEnds(s, n) :
                                     charAt(s, x) = "." } } : n \in ps },
         k - 1)

\* regexes.ipv4.test(value)
ipv4(value) ==
  \E n \in dottedOctets(value, { 1 }, 3) :
    Len(value) + 1 \in octetEnds(value, n)

\* the positions after [\dA-F]{1,4} starting at n
hexEnds(s, n) ==
  { e \in (n + 1)..(n + 4) : \A i \in n..(e - 1) : charAt(s, i) \in HexDigits }

\* one repetition of group 3 of regexes.ipv6, ([\dA-F]{1,4}:(:|\b)|), from
\* the state st = [n, g3]: the position reached and the text the group
\* then holds
group3Step(s, st) ==
  { [n |-> e + 2, g3 |-> SubSeq(s, st.n, e + 1)] :
      e \in { x \in hexEnds(s, st.n) :
                charAt(s, x) = ":" /\ charAt(s, x + 1) = ":" } }
    \cup { [n |-> e + 1, g3 |-> SubSeq(s, st.n, e)] :
             e \in { x \in hexEnds(s, st.n) :
                       charAt(s, x) = ":" /\ wordBoundary(s, x + 1) } }
    \cup { [n |-> st.n, g3 |-> <<>>] }

\* the states after k repetitions of group 3 from the states sts
RECURSIVE group3Times(_, _, _)
group3Times(s, sts, k) ==
  IF k = 0 THEN sts
  ELSE group3Times(s, UNION { group3Step(s, st) : st \in sts }, k - 1)

\* the positions after k repetitions of ([\dA-F]{1,4}:) from positions ps
RECURSIVE hexColons(_, _, _)
hexColons(s, ps, k) ==
  IF k = 0 THEN ps
  ELSE hexColons(s,
         UNION { { e + 1 : e \in { x \in hexEnds(s, n) :
                                     charAt(s, x) = ":" } } : n \in ps },
         k - 1)

\* one repetition of (([\dA-F]{1,4}((?!\3)::|:\b|$))|(?!\2\3)) from n, the
\* groups 2 and 3 holding g2 and g3
tailStep(s, g2, g3, n) ==
  { e + 2 : e \in { x \in hexEnds(s, n) :
                      /\ ~matchesAt(s, x, g3)
                      /\ charAt(s, x) = ":" /\ charAt(s, x + 1) = ":" } }
    \cup { e + 1 : e \in { x \in hexEnds(s, n) :
                             charAt(s, x) = ":" /\ wordBoundary(s, x + 1) } }
    \cup { e \in hexEnds(s, n) : e = Len(s) + 1 }
    \cup (IF ~matchesAt(s, n, g2 \o g3) THEN { n } ELSE {})

\* one repetition of (((2[0-4]|1\d|[1-9])?\d|25[0-5])\.?\b) from n
dottedTailStep(s, n) ==
  UNION { { x \in { e } \cup (IF charAt(s, e) = "." THEN { e + 1 } ELSE {}) :
              wordBoundary(s, x) } : e \in octetEnds(s, n) }

\* the positions after k repetitions of dottedTailStep from positions ps
RECURSIVE dottedTail(_, _, _)
dottedTail(s, ps, k) ==
  IF k = 0 THEN ps
  ELSE dottedTail(s, UNION { dottedTailStep(s, n) : n \in ps }, k - 1)

\* whether the second half of regexes.ipv6 matches from n to the end
tailMatches(s, g2, g3, n) ==
  \/ \E m \in tailStep(s, g2, g3, n) :
       Len(s) + 1 \in tailStep(s, g2, g3, m)
  \/ Len(s) + 1 \in dottedTail(s, { n }, 4)

\* the index i starts a "::" in s
doubleColonAt(s, i) == charAt(s, i) = ":" /\ charAt(s, i + 1) = ":"

\* regexes.ipv6.test(value): the first alternative of group 1 with its two
\* lookaheads, the optional "::" and five repetitions of group 3, or the
\* second alternative, six groups, which leaves groups 2 and 3 empty
ipv6(value) ==
  \/ /\ \E i \in 1..Len(value) : doubleColonAt(value, i)
     /\ ~\E i, j \in 1..Len(value) :
           /\ j >= i + 3
           /\ doubleColonAt(value, i)
           /\ doubleColonAt(value, j)
     /\ \/ \E st \in group3Times(value, { [n |-> 1, g3 |-> <<>>] }, 5) :
             tailMatches(value, <<>>, st.g3, st.n)
        \/ /\ doubleColonAt(value, 1)
           /\ \E st \in group3Times(value, { [n |-> 3, g3 |-> <<>>] }, 5) :
                tailMatches(value, <<":", ":">>, st.g3, st.n)
  \/ \E n \in hexColons(value, { 1 }, 6) : tailMatches(value, <<>>, <<>>, n)

\* function ip
ip(value) == value # <<>> /\ (ipv4(value) \/ ipv6(value))

(***************************************************************************)
(* Requests, responses, errors                                             *)
(*                                                                         *)
(* req: [method, originalUrl, url, protocol, referer, referrer, userAgent, *)
(*       httpVersionMajor, httpVersionMinor], absent texts being "", and   *)
(*       the addresses getIp reads: the headers xClientIp, xForwardedFor,  *)
(*       xRealIp, xForwarded, forwardedFor, and socketRemoteAddress,       *)
(*       connectionRemoteAddress, absent ones being <<>>                   *)
(* res: [statusCode, xStartTime, contentLength], a header being            *)
(*       [set, value], and for content-length [set, value, text, nan],     *)
(*       text telling a header set as a string from one set as a number,   *)
(*       nan a string parseInt finds no number in                          *)
(* err: [present, status], status 0 when the error carries none            *)
(***************************************************************************)

\* the error argument null
NoError == [present |-> FALSE, status |-> 0]

\* a || b on texts
orElse(a, b) == IF a # "" THEN a ELSE b

\* the status of the response, whether an error is present or not
statusOfResponse(res, err) ==
  IF res.statusCode # 0 THEN res.statusCode ELSE 404

\* err ? err.status || 500 : res.statusCode || 404
effectiveStatus(res, err) ==
  IF err.present
  THEN (IF err.status # 0 THEN err.status ELSE 500)
  ELSE (IF res.statusCode # 0 THEN res.statusCode ELSE 404)

\* bytes(n).toLowerCase() of the bytes package, for n below 1024 * 1024:
\* n / unit to two decimals, trailing zeros dropped, then the unit
bytes(n) ==
  IF n < 1024 THEN <<ToString(n), "b">>
  ELSE LET h == (n * 200 + 1024) \div 2048
           int == h \div 100
           frac == h % 100
       IN  IF frac = 0 THEN <<ToString(int), "kb">>
           ELSE IF frac % 10 = 0
             THEN <<ToString(int), ".", ToString(frac \div 10), "kb">>
           ELSE IF frac < 10
             THEN <<ToString(int), ".", "0", ToString(frac), "kb">>
           ELSE <<ToString(int), ".", ToString(frac), "kb">>

\* the index of the first ch in s from i on, 0 when there is none
RECURSIVE indexOf(_, _, _)
indexOf(s, ch, i) ==
  IF i > Len(s) THEN 0
  ELSE IF s[i] = ch THEN i
  ELSE indexOf(s, ch, i + 1)

\* String.prototype.split(ch) from index i
RECURSIVE splitOnFrom(_, _, _)
splitOnFrom(s, ch, i) ==
  LET k == indexOf(s, ch, i)
  IN  IF k = 0 THEN << SubSeq(s, i, Len(s)) >>
      ELSE << SubSeq(s, i, k - 1) >> \o splitOnFrom(s, ch, k + 1)

\* String.prototype.split(ch)
splitOn(s, ch) == splitOnFrom(s, ch, 1)

\* String.prototype.trim
RECURSIVE trim(_)
trim(s) ==
  IF s = <<>> THEN s
  ELSE IF IsSpace(s[1]) THEN trim(Tail(s))
  ELSE IF IsSpace(s[Len(s)]) THEN trim(SubSeq(s, 1, Len(s) - 1))
  ELSE s

\* the text "-"
dash == <<"-">>

\* an entry trimmed and left with its port
forwardedEntryWithPort(v) == trim(v)

\* function getForwardedFor, the callback of map: an entry trimmed, and
\* cut at its ":" when it holds exactly one
forwardedEntry(v) ==
  LET currentIp == trim(v)
      splitted == splitOn(currentIp, ":")
  IN  IF indexOf(currentIp, ":", 1) # 0 /\ Len(splitted) = 2
      THEN splitted[1]
      ELSE currentIp

\* function getForwardedFor, the loop from entry i on
RECURSIVE firstIp(_, _)
firstIp(forwardedIps, i) ==
  IF i > Len(forwardedIps) THEN dash
  ELSE IF ip(forwardedIps[i]) THEN forwardedIps[i]
  ELSE firstIp(forwardedIps, i + 1)

\* function getForwardedFor
getForwardedFor(value) ==
  IF value = <<>> THEN dash
  ELSE firstIp(map(splitOn(value, ","), forwardedEntry), 1)

\* function getIp, for a request that has headers
getIp(req) ==
  IF ip(req.xClientIp) THEN req.xClientIp
  ELSE IF getForwardedFor(req.xForwardedFor) # dash
  THEN getForwardedFor(req.xForwardedFor)
  ELSE IF ip(req.xRealIp) THEN req.xRealIp
  ELSE IF ip(req.xForwarded) THEN req.xForwarded
  ELSE IF ip(req.forwardedFor) THEN req.forwardedFor
  ELSE IF ip(req.socketRemoteAddress) THEN req.socketRemoteAddress
  ELSE IF ip(req.connectionRemoteAddress) THEN req.connectionRemoteAddress
  ELSE dash

\* const REQUEST: the value of token t for the request
REQUEST(t, req, now) ==
  CASE t = tMethod -> <<req.method>>
    [] t = tUrl -> <<orElse(req.originalUrl, req.url)>>
    [] t = tDate -> timestamp(now)
    [] t = tRemoteAddress -> getIp(req)
    [] t = tReferrer -> <<orElse(orElse(req.referer, req.referrer), "-")>>
    [] t = tUserAgent -> <<orElse(req.userAgent, "-")>>
    [] t = tHttpVersion ->
         <<"HTTP/", ToString(req.httpVersionMajor), ".",
           ToString(req.httpVersionMinor)>>

\* res.getHeader("content-length") taken as a condition: false for a
\* header that is not set and for the number 0, true for a decimal string
\* and for another number
truthy(header) == header.set /\ (header.text \/ header.value # 0)

\* const RESPONSE: the value of token t for the response, as
\* [object, value, colorized]; object tells a { value, colorized } result
\* from a plain string
RESPONSE(t, req, res, err, now) ==
  CASE t = tDate ->
         [object |-> FALSE, value |-> timestamp(now), colorized |-> ""]
    [] t = tStatus ->
         LET status == effectiveStatus(res, err)
             s == status \div 100
             color == IF s \in DOMAIN colorCodes THEN colorCodes[s]
                      ELSE colorCodes[0]
         IN  [object |-> TRUE, value |-> <<ToString(status)>>,
              colorized |-> color]
    [] t = tContentLength ->
         LET status == effectiveStatus(res, err)
             length == IF status \in {204, 205, 304} THEN <<"">>
                       ELSE IF ~truthy(res.contentLength) THEN <<"-">>
                       ELSE bytes(res.contentLength.value)
         IN  [object |-> FALSE, value |-> length, colorized |-> ""]
    [] t = tResponseTime ->
         LET start == [nan |-> ~res.xStartTime.set,
                       ms |-> res.xStartTime.value]
             r == time(start, now)
         IN  [object |-> TRUE, value |-> r.time,
              colorized |-> getColorForTime(r.delta)]
    [] t = tMethod ->
         [object |-> FALSE, value |-> <<req.method>>, colorized |-> ""]
    [] t = tUrl ->
         [object |-> FALSE, value |-> <<orElse(req.originalUrl, req.url)>>,
          colorized |-> ""]

\* RESPONSE[t](req, res, err) throws: for :content-length when the header
\* is a string parseInt reads as NaN, bytes(NaN) being null and
\* null.toLowerCase() a TypeError
responseThrows(t, res, err) ==
  /\ t = tContentLength
  /\ effectiveStatus(res, err) \notin { 204, 205, 304 }
  /\ truthy(res.contentLength)
  /\ res.contentLength.nan

\* the result left as it is, whatever the form of the token
wrapNever(isContainsBrackets, text) == text

\* `[${result}]` when the token was written with brackets
wrap(isContainsBrackets, text) ==
  IF isContainsBrackets THEN <<"[">> \o text \o <<"]">> ELSE text

\* function interpolate: the closure made for (token, color), applied to
\* (isRequest, req, res, err)
interpolate(fn, isRequest, req, res, err, now) ==
  LET isContainsBrackets == hasBracket(fn.token)
      t == stripBrackets(fn.token)
  IN  IF isRequest
      THEN Cell(colorizedFn(fn.color),
                wrap(isContainsBrackets, REQUEST(t, req, now)))
      ELSE LET result == RESPONSE(t, req, res, err, now)
           IN  IF result.object
               THEN Cell(result.colorized,
                         wrap(isContainsBrackets, result.value))
               ELSE Cell(colorizedFn(fn.color),
                         wrap(isContainsBrackets, result.value))

\* the keys of const REQUEST_TOKENS
REQUEST_TOKENS ==
  { tMethod, tUrl, tDate, tRemoteAddress, tReferrer, tUserAgent,
    tHttpVersion }

\* the keys of const RESPONSE_TOKENS
RESPONSE_TOKENS ==
  { tDate, tStatus, tContentLength, tResponseTime, tMethod, tUrl }

\* the colour REQUEST_TOKENS and RESPONSE_TOKENS bind a token to (the two
\* tables agree on the tokens they share)
tokenColor(value) ==
  CASE value = tMethod -> "whiteBright"
    [] value = tUrl -> "magenta"
    [] value = tStatus -> ""
    [] OTHER -> "gray"

(***************************************************************************)
(* extractTokens and compile                                               *)
(***************************************************************************)

\* the fragments extractTokens keeps before the vocabulary filter:
\* split, drop the blank ones, strip the whitespace of the others
fragments(format) == map(filter(split(format), trimNonEmpty), stripSpaces)

\* a filter that keeps every fragment written as a token, known or not
isColonFragment(token) == Len(token) > 0 /\ token[1] = ":"

\* a filter that keeps every fragment
isAnyFragment(token) == TRUE

\* the predicate of the second filter of extractTokens
isKnownToken(token) == includes(TOKENS, stripBrackets(token))

\* function extractTokens on a cache miss: the entry stored for format
parseTokens(format) ==
  [tokens |-> filter(fragments(format), isKnownToken),
   isIncommingSet |->
     \E i \in 1..Len(fragments(format)) :
        stripBrackets(fragments(format)[i]) = tIncoming]

\* names every plain object inherits from Object.prototype, which
\* parsedTokens[format] finds although the cache was never given them
lConstructor == <<"c", "o", "n", "s", "t", "r", "u", "c", "t", "o", "r">>
lToString == <<"t", "o", "S", "t", "r", "i", "n", "g">>
lValueOf == <<"v", "a", "l", "u", "e", "O", "f">>
ObjectPrototypeKeys == { lConstructor, lToString, lValueOf }

\* parsedTokens[format] is an inherited function: extractTokens returns
\* it, it has no tokens property, and tokens.forEach is a TypeError
inherited(format) == format \in ObjectPrototypeKeys

\* function extractTokens: the entry returned for format, from the cache
\* when it holds one
extractTokens(cache, format) ==
  IF format \in DOMAIN cache THEN cache[format] ELSE parseTokens(format)

\* a cache that holds the entry of the last format only
storeTokensEvicting(cache, format) ==
  [f \in {format} |-> parseTokens(format)]

\* function extractTokens: the cache after the call
storeTokens(cache, format) ==
  IF format \in DOMAIN cache THEN cache
  ELSE [f \in DOMAIN cache \cup {format} |->
          IF f = format THEN parseTokens(format) ELSE cache[f]]

\* the sentinel of whereTheResponseIndicatorIs
NoIndicator == -999

\* function compile, before tokens.forEach: the two output arrays, the
\* connector pushed when :incoming is absent, and the connector index
\* (0-based, as in the source)
compileStart(isIncommingSet) ==
  IF isIncommingSet
  THEN [requestOutput |-> <<Cell("gray", <<" INCOMING ">>)>>,
        responseOutput |-> <<Cell("gray", <<" OUTGOING ">>)>>,
        requstArgs |-> <<>>,
        responseArgs |-> <<>>,
        whereTheResponseIndicatorIs |-> NoIndicator]
  ELSE [requestOutput |-> <<Cell("gray", <<"<--">>)>>,
        responseOutput |-> <<Cell("none", <<"-->">>)>>,
        requstArgs |-> <<>>,
        responseArgs |-> <<>>,
        whereTheResponseIndicatorIs |-> 0]

\* the render function REQUEST_TOKENS[value](token), as data
renderFn(token) ==
  [token |-> token, color |-> tokenColor(stripBrackets(token))]

\* the body of tokens.forEach with the render functions put in front of
\* the lists instead of pushed at their end
compileTokenReversed(p, token) ==
  LET value == stripBrackets(token)
  IN  IF value = tIncoming
      THEN [p EXCEPT
              !.requestOutput = Append(@, Cell("gray", <<"<--">>)),
              !.responseOutput = Append(@, Cell("none", <<"-->">>)),
              !.whereTheResponseIndicatorIs = Len(p.responseOutput)]
      ELSE LET q == IF value \in REQUEST_TOKENS
                    THEN [p EXCEPT
                            !.requestOutput = Append(@, placeholder),
                            !.requstArgs = <<renderFn(token)>> \o @]
                    ELSE p
           IN  IF value \in RESPONSE_TOKENS
               THEN [q EXCEPT
                       !.responseOutput = Append(@, placeholder),
                       !.responseArgs = <<renderFn(token)>> \o @]
               ELSE q

\* the body of tokens.forEach giving a token of both tables a placeholder
\* in the response phase only
compileTokenOnePhase(p, token) ==
  LET value == stripBrackets(token)
  IN  IF value = tIncoming
      THEN [p EXCEPT
              !.requestOutput = Append(@, Cell("gray", <<"<--">>)),
              !.responseOutput = Append(@, Cell("none", <<"-->">>)),
              !.whereTheResponseIndicatorIs = Len(p.responseOutput)]
      ELSE IF value \in RESPONSE_TOKENS
      THEN [p EXCEPT
              !.responseOutput = Append(@, placeholder),
              !.responseArgs = Append(@, renderFn(token))]
      ELSE IF value \in REQUEST_TOKENS
      THEN [p EXCEPT
              !.requestOutput = Append(@, placeholder),
              !.requstArgs = Append(@, renderFn(token))]
      ELSE p

\* function compile: the body of tokens.forEach for one token
compileToken(p, token) ==
  LET value == stripBrackets(token)
  IN  IF value = tIncoming
      THEN [p EXCEPT
              !.requestOutput = Append(@, Cell("gray", <<"<--">>)),
              !.responseOutput = Append(@, Cell("none", <<"-->">>)),
              !.whereTheResponseIndicatorIs = Len(p.responseOutput)]
      ELSE IF value = tDate
      THEN [p EXCEPT
              !.requestOutput = Append(@, placeholder),
              !.requstArgs = Append(@, renderFn(token)),
              !.responseOutput = Append(@, placeholder),
              !.responseArgs = Append(@, renderFn(token))]
      ELSE LET q == IF value \in REQUEST_TOKENS
                    THEN [p EXCEPT
                            !.requestOutput = Append(@, placeholder),
                            !.requstArgs = Append(@, renderFn(token))]
                    ELSE p
           IN  IF value \in RESPONSE_TOKENS
               THEN [q EXCEPT
                       !.responseOutput = Append(@, placeholder),
                       !.responseArgs = Append(@, renderFn(token))]
               ELSE q

RECURSIVE forEachToken(_, _, _)
\* tokens.forEach from index i
forEachToken(p, tokens, i) ==
  IF i > Len(tokens) THEN p
  ELSE forEachToken(compileToken(p, tokens[i]), tokens, i + 1)

\* function compile: the state the returned closures share
compile(entry) ==
  forEachToken(compileStart(entry.isIncommingSet), entry.tokens, 1)

(***************************************************************************)
(* logRequest and logResponse                                              *)
(***************************************************************************)

\* String.prototype.toUpperCase on request.protocol
toUpperCase(protocol) ==
  CASE protocol = "http" -> "HTTP"
    [] protocol = "https" -> "HTTPS"

\* chalk.bgBlue.bold(` ${request.protocol.toUpperCase()} `)
banner(req) == Cell("bgBlue.bold", <<" ", toUpperCase(req.protocol), " ">>)

RECURSIVE formatFrom(_, _, _, _)
\* util.format(output.join(" "), ...results) from segment i with the
\* results from j on still unused: each %s takes the next result, a %s
\* without one stays, the results left over are appended
formatFrom(output, results, i, j) ==
  IF i > Len(output) THEN SubSeq(results, j, Len(results))
  ELSE IF output[i] = placeholder /\ j <= Len(results)
  THEN <<results[j]>> \o formatFrom(output, results, i + 1, j + 1)
  ELSE <<output[i]>> \o formatFrom(output, results, i + 1, j)

\* util.format(output.join(" "), ...results)
format(output, results) == formatFrom(output, results, 1, 1)

\* requestOutput.unshift(banner) / responseOutput.unshift(banner)
unshift(output, cell) == <<cell>> \o output

\* logRequest: the plan after the call and the string printed
logRequest(p, req, res, err, now) ==
  LET results == [i \in 1..Len(p.requstArgs) |->
                    interpolate(p.requstArgs[i], TRUE, req, res, err, now)]
      requestOutput == unshift(p.requestOutput, banner(req))
  IN  [plan |-> [p EXCEPT !.requestOutput = requestOutput],
       string |-> format(requestOutput, results)]

\* the connector chosen with the close event looked at before the error
upstreamCloseFirst(res, err, event) ==
  IF event = "close" THEN Cell("yellow", <<"-x-">>)
  ELSE IF err.present THEN Cell("red", <<"xxx">>)
  ELSE IF res.statusCode >= 500 THEN Cell("red", <<"xxx">>)
  ELSE IF res.statusCode = 404 THEN Cell("cyan", <<"-X-">>)
  ELSE Cell("gray", <<"-->">>)

\* logResponse: the connector chosen for the outcome
upstream(res, err, event) ==
  IF err.present THEN Cell("red", <<"xxx">>)
  ELSE IF event = "close" THEN Cell("yellow", <<"-x-">>)
  ELSE IF res.statusCode >= 500 THEN Cell("red", <<"xxx">>)
  ELSE IF res.statusCode = 404 THEN Cell("cyan", <<"-X-">>)
  ELSE Cell("gray", <<"-->">>)

\* responseOutput[whereTheResponseIndicatorIs] = upstream, when the index
\* is not the sentinel
setIndicator(p, cell) ==
  IF p.whereTheResponseIndicatorIs # NoIndicator
  THEN [p.responseOutput EXCEPT
          ![p.whereTheResponseIndicatorIs + 1] = cell]
  ELSE p.responseOutput

\* logResponse: the plan after the call and the string printed; threw
\* when a render function of responseArgs.map throws, before the plan is
\* touched
logResponse(p, req, res, err, event, now) ==
  LET results == [i \in 1..Len(p.responseArgs) |->
                    interpolate(p.responseArgs[i], FALSE, req, res, err, now)]
      responseOutput ==
        unshift(setIndicator(p, upstream(res, err, event)), banner(req))
  IN  IF \E i \in 1..Len(p.responseArgs) :
            responseThrows(stripBrackets(p.responseArgs[i].token), res, err)
      THEN [plan |-> p, string |-> <<>>, threw |-> TRUE]
      ELSE [plan |-> [p EXCEPT !.responseOutput = responseOutput],
            string |-> format(responseOutput, results), threw |-> FALSE]

(***************************************************************************)
(* Bounds and input sets                                                   *)
(***************************************************************************)

\* the number of logger(format) calls (middlewares) of a run
MaxLoggers == 2

\* the number of exchanges of a run
MaxExchanges == 2

\* the last instant of the clock, in ms
MaxClock == 1

\* the number of compile calls of a run that calls compile directly
MaxPlans == 1

\* the number of direct logRequest / logResponse calls of such a run
MaxRenders == 2

\* the number of fragments of a format string compiled directly
MaxFrags == 3

lBogus == <<":", "b", "o", "g", "u", "s", "-", "t", "o", "k", "e", "n">>
lBracketUrl == <<":", "[", "u", "r", "l", "]">>
lPipe == <<"|">>

\* the fragments format strings are built from: bare and bracketed tokens
\* of both phases, the control token, an unknown token, a literal
Lexemes == { tMethod, lBracketUrl, tIncoming, tStatus, lBogus, lPipe }

\* the lists of at most n fragments
RECURSIVE LexLists(_)
LexLists(n) ==
  IF n = 0 THEN { <<>> }
  ELSE LexLists(n - 1)
         \cup { Append(l, x) : l \in { m \in LexLists(n - 1) : Len(m) = n - 1 },
                               x \in Lexemes }

RECURSIVE joinFrom(_, _)
\* the format string made of the fragments from i on, single spaces between
joinFrom(l, i) ==
  IF i > Len(l) THEN <<>>
  ELSE IF i = Len(l) THEN l[i]
  ELSE l[i] \o <<" ">> \o joinFrom(l, i + 1)

\* the format string written as the fragments of l
formatOf(l) == joinFrom(l, 1)

\* the format arguments given to logger: none (null, undefined or ""),
\* a format with the control token between two tokens, one without it
LoggerFormats ==
  { <<>>,
    formatOf(<<tMethod, tIncoming, tStatus>>),
    formatOf(<<tUrl, tStatus>>) }

request(method) ==
  [method |-> method, originalUrl |-> "/users", url |-> "/users",
   protocol |-> "http", referer |-> "", referrer |-> "",
   userAgent |-> "curl", httpVersionMajor |-> 1, httpVersionMinor |-> 1,
   xClientIp |-> <<>>, xForwardedFor |-> <<>>, xRealIp |-> <<>>,
   xForwarded |-> <<>>, forwardedFor |-> <<>>,
   socketRemoteAddress |-> <<>>, connectionRemoteAddress |-> <<>>]

\* the requests of the middleware runs
Requests == { request("GET") }

\* the status codes a handler sets
StatusCodes == { 200, 404, 500 }

\* a fresh response: node's statusCode default, no header
freshResponse ==
  [statusCode |-> 200,
   xStartTime |-> [set |-> FALSE, value |-> 0],
   contentLength |-> [set |-> FALSE, value |-> 0, text |-> FALSE,
                      nan |-> FALSE]]

\* the responses of the direct calls
Responses == { [freshResponse EXCEPT !.statusCode = c] : c \in StatusCodes }

\* the error arguments of the direct calls
Errors == { NoError, [present |-> TRUE, status |-> 0] }

Events == { "finish", "close" }

(***************************************************************************)
(* State                                                                   *)
(***************************************************************************)

VARIABLES
  parsedTokens,  \* const parsedTokens: format -> [tokens, isIncommingSet]
  plans,         \* the closure state of each compile call, in call order
  compiled,      \* per compile call: its argument, whether the cache held
                 \* it, and the closure state as compile returned it
  exchanges,     \* per exchange: the request, the response and its
                 \* listeners, the events emitted, the calls of next
  sink,          \* what print was called with, in call order
  now,           \* Date.now()
  formatArg,     \* the fragments of the format compiled by direct calls
  thrown         \* the exceptions that reached a caller, in order

vars ==
  <<parsedTokens, plans, compiled, exchanges, sink, now, formatArg, thrown>>

Exchange == 1..MaxExchanges

idleExchange ==
  [stage |-> "idle", mw |-> 0, req |-> request("GET"),
   res |-> freshResponse, listeners |-> <<>>, emitted |-> <<>>,
   nextCalls |-> 0, calls |-> <<>>]

\* module load: an empty cache, no middleware, no exchange
Init ==
  /\ parsedTokens = <<>>
  /\ plans = <<>>
  /\ compiled = <<>>
  /\ exchanges = [e \in Exchange |-> idleExchange]
  /\ sink = <<>>
  /\ now = 0
  /\ formatArg = <<>>
  /\ thrown = <<>>

\* the options argument of logger: none, a function, an object with a
\* transporter function, an object without one; and the print argument of
\* a direct call of logRequest or logResponse, the caller's own function
NoOptions == "undefined"
LoggerOptions == { NoOptions, "function", "transporterField", "emptyObject" }
CallerPrint == "print"

\* a function option that throws when it is called, and whether options is
\* a function
ThrowingFunction == "throwingFunction"
isFunction(options) == options \in { "function", ThrowingFunction }

\* transport(string, args) throws
sinkThrows(options) == options = ThrowingFunction

\* util.format(...args): a single string is returned as it is
utilFormat(args) ==
  IF Len(args) = 1 THEN args[1] ELSE format(args[1], Tail(args))

\* a transporter that honours a function option only
transporterFunctionOnly(options, args) ==
  IF options = CallerPrint
  THEN [via |-> CallerPrint, string |-> args[1], args |-> args]
  ELSE IF options = "function"
  THEN [via |-> "options", string |-> utilFormat(args), args |-> args]
  ELSE [via |-> "console.log", string |-> utilFormat(args), args |-> args]

\* function transporter: the function it returns, called with args; via
\* names what received the line (transport(string, args) of the function
\* option or of options.transporter, or console.log(...args), which
\* formats its arguments as util.format does)
transporter(options, args) ==
  IF options = CallerPrint
  THEN [via |-> CallerPrint, string |-> args[1], args |-> args]
  ELSE IF isFunction(options)
  THEN [via |-> "options", string |-> utilFormat(args), args |-> args]
  ELSE IF options = "transporterField"
  THEN [via |-> "options.transporter", string |-> utilFormat(args),
        args |-> args]
  ELSE [via |-> "console.log", string |-> utilFormat(args), args |-> args]

\* print(string) of plan p: what reaches the sink, with the call it came
\* from
entry(e, p, phase, event, req, res, err, string) ==
  LET out == transporter(compiled[p].options, <<string>>)
  IN  [exch |-> e, plan |-> p, phase |-> phase, event |-> event,
       req |-> req, res |-> res, err |-> err, now |-> now,
       string |-> out.string, via |-> out.via, args |-> out.args]

\* the format argument taken as it is
orDefaultNone(fmt) == fmt

\* format || DEFAULT_FORMAT
orDefault(fmt) == IF fmt = <<>> THEN DEFAULT_FORMAT ELSE fmt

\* compile(format): extractTokens through the cache, then the closures;
\* a TypeError, and nothing stored, for a format Object.prototype holds
compileCall(arg, fmt, options) ==
  IF inherited(fmt)
  THEN /\ thrown' = Append(thrown, "TypeError")
       /\ UNCHANGED <<parsedTokens, plans, compiled>>
  ELSE /\ parsedTokens' = storeTokens(parsedTokens, fmt)
       /\ plans' = Append(plans, compile(extractTokens(parsedTokens, fmt)))
       /\ compiled' = Append(compiled,
                             [arg |-> arg, format |-> fmt,
                              options |-> options,
                              hit |-> fmt \in DOMAIN parsedTokens,
                              plan |-> compile(extractTokens(parsedTokens,
                                                             fmt))])
       /\ UNCHANGED thrown

\* logger(format, options)
Logger(fmt, options) ==
  /\ Len(plans) + Len(thrown) < MaxLoggers
  /\ compileCall(fmt, orDefault(fmt), options)
  /\ UNCHANGED <<exchanges, sink, now, formatArg>>

\* the middleware without its logRequest call
MiddlewareSilent(e, m, req) ==
  LET res == [exchanges[e].res EXCEPT
                !.xStartTime = [set |-> TRUE, value |-> now]]
  IN  /\ exchanges[e].stage = "idle"
      /\ \A d \in 1..(e - 1) : exchanges[d].stage # "idle"
      /\ m \in 1..Len(plans)
      /\ exchanges' = [exchanges EXCEPT
                         ![e] = [@ EXCEPT !.stage = "open", !.mw = m,
                                          !.req = req, !.res = res,
                                          !.listeners = <<"finish", "close">>,
                                          !.nextCalls = @ + 1,
                                          !.calls = <<"setHeader",
                                                      "once finish",
                                                      "once close",
                                                      "next">>]]
      /\ UNCHANGED <<parsedTokens, plans, compiled, sink, now, formatArg,
                     thrown>>

\* a middleware that calls logRequest before it stores the header
MiddlewareLateHeader(e, m, req) ==
  LET res == [exchanges[e].res EXCEPT
                !.xStartTime = [set |-> TRUE, value |-> now]]
      r == logRequest(plans[m], req, exchanges[e].res, NoError, now)
  IN  /\ exchanges[e].stage = "idle"
      /\ \A d \in 1..(e - 1) : exchanges[d].stage # "idle"
      /\ m \in 1..Len(plans)
      /\ plans' = [plans EXCEPT ![m] = r.plan]
      /\ sink' = Append(sink, entry(e, m, "request", "", req,
                                    exchanges[e].res, NoError, r.string))
      /\ exchanges' = [exchanges EXCEPT
                         ![e] = [@ EXCEPT !.stage = "open", !.mw = m,
                                          !.req = req, !.res = res,
                                          !.listeners = <<"finish", "close">>,
                                          !.nextCalls = @ + 1,
                                          !.calls = <<"logRequest",
                                                      "setHeader",
                                                      "once finish",
                                                      "once close",
                                                      "next">>]]
      /\ UNCHANGED <<parsedTokens, compiled, now, formatArg, thrown>>

\* a setHeader that stores a content-length next to the start time
setStartTimeAndLength(res, start) ==
  [res EXCEPT !.xStartTime = [set |-> TRUE, value |-> start],
              !.contentLength = [set |-> TRUE, value |-> 0, text |-> FALSE,
                                 nan |-> FALSE]]

\* response.setHeader("x-start-time", start)
setStartTime(res, start) ==
  [res EXCEPT !.xStartTime = [set |-> TRUE, value |-> start]]

\* an error value handed to the renders by the middleware
middlewareErrorPresent == [present |-> TRUE, status |-> 0]

\* the error argument of the logRequest and logResponse calls of the
\* middleware: null
middlewareError == NoError

\* a middleware that catches what print throws and goes on
MiddlewareCatching(e, m, req) ==
  LET res == [exchanges[e].res EXCEPT
                !.xStartTime = [set |-> TRUE, value |-> now]]
      r == logRequest(plans[m], req, res, NoError, now)
  IN  /\ exchanges[e].stage = "idle"
      /\ \A d \in 1..(e - 1) : exchanges[d].stage # "idle"
      /\ m \in 1..Len(plans)
      /\ plans' = [plans EXCEPT ![m] = r.plan]
      /\ sink' = Append(sink, entry(e, m, "request", "", req, res, NoError,
                                    r.string))
      /\ exchanges' = [exchanges EXCEPT
                         ![e] = [@ EXCEPT !.stage = "open", !.mw = m,
                                          !.req = req, !.res = res,
                                          !.listeners = <<"finish", "close">>,
                                          !.nextCalls = @ + 1,
                                          !.calls = <<"setHeader",
                                                      "logRequest",
                                                      "once finish",
                                                      "once close",
                                                      "next">>]]
      /\ UNCHANGED <<parsedTokens, compiled, now, formatArg, thrown>>

\* the middleware returned by logger, called for exchange e (exchanges are
\* numbered in the order they arrive): the header, logRequest, the two once
\* listeners, next; calls lists what was called for the exchange, in the
\* order of the calls.  When print throws, the exception leaves the
\* middleware from inside logRequest: the header is stored and the banner
\* put in front of the plan's segments, and nothing after logRequest runs
Middleware(e, m, req) ==
  LET res == setStartTime(exchanges[e].res, now)
      r == logRequest(plans[m], req, res, middlewareError, now)
  IN  /\ exchanges[e].stage = "idle"
      /\ \A d \in 1..(e - 1) : exchanges[d].stage # "idle"
      /\ m \in 1..Len(plans)
      /\ plans' = [plans EXCEPT ![m] = r.plan]
      /\ sink' = Append(sink, entry(e, m, "request", "", req, res, middlewareError,
                                    r.string))
      /\ IF sinkThrows(compiled[m].options)
         THEN /\ thrown' = Append(thrown, "SinkError")
              /\ exchanges' = [exchanges EXCEPT
                                 ![e] = [@ EXCEPT !.stage = "failed",
                                                  !.mw = m, !.req = req,
                                                  !.res = res,
                                                  !.calls = <<"setHeader",
                                                              "logRequest">>]]
         ELSE /\ exchanges' = [exchanges EXCEPT
                                 ![e] = [@ EXCEPT !.stage = "open", !.mw = m,
                                                  !.req = req, !.res = res,
                                                  !.listeners =
                                                     <<"finish", "close">>,
                                                  !.nextCalls = @ + 1,
                                                  !.calls = <<"setHeader",
                                                              "logRequest",
                                                              "once finish",
                                                              "once close",
                                                              "next">>]]
              /\ UNCHANGED thrown
      /\ UNCHANGED <<parsedTokens, compiled, now, formatArg>>

\* a downstream handler sets the status code, once, before the response
\* ends
SetStatus(e, code) ==
  /\ exchanges[e].stage = "open"
  /\ exchanges[e].emitted = <<>>
  /\ exchanges[e].res.statusCode = freshResponse.statusCode
  /\ code # freshResponse.statusCode
  /\ exchanges' = [exchanges EXCEPT ![e].res.statusCode = code]
  /\ UNCHANGED <<parsedTokens, plans, compiled, sink, now, formatArg,
                 thrown>>

\* response.removeListener: the first listener registered for the event
\* is taken off; a once listener is taken off the same way before it runs
removeListener(listeners, event) ==
  LET k == indexOf(listeners, event, 1)
  IN  IF k = 0 THEN listeners
      ELSE SubSeq(listeners, 1, k - 1) \o SubSeq(listeners, k + 1, Len(listeners))

\* done without its two removeListener calls
keepListeners(listeners) == listeners

\* function done: the listeners left on the response after
\* removeListener("finish", onfinish) and removeListener("close", onclose)
removeListeners(listeners) ==
  removeListener(removeListener(listeners, "finish"), "close")

\* the response emits event (each once at most), also when the middleware
\* left with an exception and the host answered; a once listener is taken
\* off before it runs, and done removes the other and prints the response
Emit(e, event) ==
  LET x == exchanges[e]
      r == logResponse(plans[x.mw], x.req, x.res, middlewareError, event,
                       now)
  IN  /\ x.stage \in { "open", "failed" }
      /\ ~includes(x.emitted, event)
      /\ IF includes(x.listeners, event)
         THEN /\ plans' = [plans EXCEPT ![x.mw] = r.plan]
              /\ IF r.threw
                 THEN /\ thrown' = Append(thrown, "TypeError")
                      /\ UNCHANGED sink
                 ELSE /\ sink' = Append(sink, entry(e, x.mw, "response",
                                                    event, x.req, x.res,
                                                    middlewareError,
                                                    r.string))
                      /\ UNCHANGED thrown
              /\ exchanges' = [exchanges EXCEPT
                                 ![e].emitted = Append(@, event),
                                 ![e].listeners =
                                    removeListeners(removeListener(x.listeners, event)),
                                 ![e].calls = Append(@, "logResponse")]
         ELSE /\ exchanges' = [exchanges EXCEPT
                                 ![e].emitted = Append(@, event)]
              /\ UNCHANGED <<plans, sink, thrown>>
      /\ UNCHANGED <<parsedTokens, compiled, now, formatArg>>

\* time passes
Tick ==
  /\ now < MaxClock
  /\ now' = now + 1
  /\ UNCHANGED <<parsedTokens, plans, compiled, exchanges, sink, formatArg,
                 thrown>>

Next ==
  \/ \E fmt \in LoggerFormats : Logger(fmt, NoOptions)
  \/ \E e \in Exchange, m \in 1..MaxLoggers, req \in Requests :
       Middleware(e, m, req)
  \/ \E e \in Exchange, code \in StatusCodes : SetStatus(e, code)
  \/ \E e \in Exchange, event \in Events : Emit(e, event)
  \/ Tick

Spec == Init /\ [][Next]_vars

(***************************************************************************)
(* Direct calls of compile and of the closures it returns                  *)
(***************************************************************************)

\* as Init, for any format string of at most MaxFrags fragments
InitPlan ==
  /\ parsedTokens = <<>>
  /\ plans = <<>>
  /\ compiled = <<>>
  /\ exchanges = [e \in Exchange |-> idleExchange]
  /\ sink = <<>>
  /\ now = 0
  /\ formatArg \in LexLists(MaxFrags)
  /\ thrown = <<>>

\* compile(format): the first call misses the cache, the later ones hit it
Compile ==
  /\ Len(plans) + Len(thrown) < MaxPlans
  /\ compileCall(formatArg, formatOf(formatArg), CallerPrint)
  /\ UNCHANGED <<exchanges, sink, now, formatArg>>

\* logRequest(request, response, error, print) of plan p
LogRequest(p, req, res, err) ==
  LET r == logRequest(plans[p], req, res, err, now)
  IN  /\ Len(sink) + Len(thrown) < MaxRenders
      /\ plans' = [plans EXCEPT ![p] = r.plan]
      /\ sink' = Append(sink, entry(0, p, "request", "", req, res, err,
                                    r.string))
      /\ UNCHANGED <<parsedTokens, compiled, exchanges, now, formatArg,
                     thrown>>

\* logResponse(request, response, error, event, print) of plan p
LogResponse(p, req, res, err, event) ==
  LET r == logResponse(plans[p], req, res, err, event, now)
  IN  /\ Len(sink) + Len(thrown) < MaxRenders
      /\ plans' = [plans EXCEPT ![p] = r.plan]
      /\ IF r.threw
         THEN /\ thrown' = Append(thrown, "TypeError")
              /\ UNCHANGED sink
         ELSE /\ sink' = Append(sink, entry(0, p, "response", event, req,
                                            res, err, r.string))
              /\ UNCHANGED thrown
      /\ UNCHANGED <<parsedTokens, compiled, exchanges, now, formatArg>>

NextPlan ==
  \/ Compile
  \/ \E p \in 1..Len(plans), req \in Requests :
       LogRequest(p, req, freshResponse, NoError)
  \/ \E p \in 1..Len(plans), req \in Requests, res \in Responses,
        err \in Errors, event \in Events :
       LogResponse(p, req, res, err, event)

PlanSpec == InitPlan /\ [][NextPlan]_vars

(***************************************************************************)
(* One token rendered once: compile of a format string of a single token,  *)
(* bare or bracketed, then one call of logRequest or of logResponse        *)
(***************************************************************************)

\* the tokens that stand for a value
DataTokens ==
  { tRemoteAddress, tDate, tMethod, tUrl, tHttpVersion, tStatus,
    tContentLength, tResponseTime, tReferrer, tUserAgent }

\* :[name] for the token :name
bracketed(t) == <<":", "[">> \o Tail(t) \o <<"]">>

TokenFormats ==
  { <<t>> : t \in DataTokens } \cup { <<bracketed(t)>> : t \in DataTokens }

\* the instants of a render: the start header holds 0, so these are the
\* elapsed times, on both sides of 50 ms, 100 ms and of the switch to
\* seconds at 10 s
ClockValues ==
  { 0, 30, 49, 50, 75, 99, 100, 150, 1234, 9999, 10000, 12499, 12500 }

\* a text as the sequence of its characters, for the addresses used below
aBad == <<"n", "o", "t", "-", "a", "n", "-", "i", "p">>
aLoopback6 == <<":", ":", "1">>
aOctets(d) == <<"1", "0", ".", "0", ".", "0", ".", d>>
aOutOfRange == <<"2", "5", "6", ".", "1", ".", "1", ".", "1">>
aWithPort(d) == aOctets(d) \o <<":", "1", "2", "3", "4">>
aTwoColons == aOctets("9") \o <<":", "5", ":", "6">>

\* the values of the x-forwarded-for header: absent, an invalid entry then
\* a valid one with a port, padded valid entries, an IPv6 entry after an
\* invalid one, entries none of which is valid
ForwardedValues ==
  { <<>>,
    aBad \o <<",", " ">> \o aWithPort("5"),
    <<" ">> \o aOctets("6") \o <<" ", ",">> \o aOctets("7"),
    aOutOfRange \o <<",">> \o aLoopback6,
    aTwoColons \o <<",", ",">> \o aBad }

\* the requests of a render of :remote-address: every candidate absent,
\* invalid or valid, the valid ones differing from one candidate to the
\* other
IpRequests ==
  { [request("GET") EXCEPT
       !.xClientIp = a, !.xForwardedFor = b, !.xRealIp = c,
       !.xForwarded = d, !.forwardedFor = e,
       !.socketRemoteAddress = f, !.connectionRemoteAddress = g] :
      a \in { <<>>, aBad, aOctets("1") },
      b \in ForwardedValues,
      c \in { <<>>, aOutOfRange, aOctets("2") },
      d \in { <<>>, aOctets("3") },
      e \in { <<>>, aOctets("4") },
      f \in { <<>>, aWithPort("8"), aLoopback6 },
      g \in { <<>>, aBad, aOctets("8") } }

\* the requests of a render of another token
TextRequests ==
  { [request("GET") EXCEPT
       !.originalUrl = o, !.referer = a, !.referrer = b, !.userAgent = c,
       !.httpVersionMajor = v[1], !.httpVersionMinor = v[2]] :
      o \in { "", "/users?page=2" },
      a \in { "", "http://a.example" },
      b \in { "", "http://b.example" },
      c \in { "", "curl" },
      v \in { <<1, 1>>, <<2, 0>> } }

\* response.statusCode: 0 (unset by a handler that clears it) and values of
\* every bucket from 1 to 9
TokenStatuses ==
  { 0, 100, 199, 200, 204, 205, 301, 304, 404, 500, 503, 600, 700, 799, 999 }

\* the content-length header: not set, set as a number, set as a string
ContentLengths ==
  { [set |-> FALSE, value |-> 0, text |-> FALSE, nan |-> FALSE] }
    \cup { [set |-> TRUE, value |-> n, text |-> t, nan |-> FALSE] :
             n \in { 0, 512, 1024, 1536 }, t \in BOOLEAN }

\* the error argument: none, one without a status, one with a status of
\* each kind
TokenErrors ==
  { NoError } \cup { [present |-> TRUE, status |-> c] :
                       c \in { 0, 204, 404, 503 } }

\* the responses of a render of token t: those in which what t reads varies
tokenResponses(t) ==
  LET started == [freshResponse EXCEPT
                    !.xStartTime = [set |-> TRUE, value |-> 0]]
  IN  CASE t = tStatus ->
             { [started EXCEPT !.statusCode = c] : c \in TokenStatuses }
        [] t = tContentLength ->
             { [started EXCEPT !.statusCode = c, !.contentLength = h] :
                 c \in { 0, 200, 204, 205, 304, 404 }, h \in ContentLengths }
        [] t = tResponseTime -> { started, freshResponse }
        [] OTHER -> { started }

\* the requests of a render of token t
tokenRequests(t) ==
  IF t = tRemoteAddress THEN IpRequests ELSE TextRequests

\* the request of a response render: the router left originalUrl on it
\* but for the responses without a status code
urlRequestOf(res) ==
  IF res.statusCode = 0 THEN [request("GET") EXCEPT !.originalUrl = ""]
  ELSE request("GET")

\* the token of a format string of a single token
tokenOf(l) == stripBrackets(l[1])

\* as Init, for any format string of one token and any instant
InitToken ==
  /\ parsedTokens = <<>>
  /\ plans = <<>>
  /\ compiled = <<>>
  /\ exchanges = [e \in Exchange |-> idleExchange]
  /\ sink = <<>>
  /\ formatArg \in TokenFormats
  /\ thrown = <<>>
  /\ now \in (IF tokenOf(formatArg) = tResponseTime THEN ClockValues
              ELSE { 0 })

\* the first logRequest call of the plan
TokenRequest(req) ==
  /\ sink = <<>>
  /\ LogRequest(1, req, freshResponse, NoError)

\* the first logResponse call of the plan
TokenResponse(req, res, err, event) ==
  /\ sink = <<>>
  /\ thrown = <<>>
  /\ LogResponse(1, req, res, err, event)

NextToken ==
  \/ Compile
  \/ \E req \in tokenRequests(tokenOf(formatArg)) :
       Len(plans) = 1 /\ TokenRequest(req)
  \/ \E res \in tokenResponses(tokenOf(formatArg)), err \in TokenErrors,
        event \in Events :
       Len(plans) = 1 /\ TokenResponse(urlRequestOf(res), res, err, event)

TokenSpec == InitToken /\ [][NextToken]_vars

(***************************************************************************)
(* Any format string and any state of the request and of the response:     *)
(* compile, then one call of logRequest or of logResponse                  *)
(***************************************************************************)

\* format strings of no token, of one token, of the default tokens, of an
\* unknown token, and of a word that names a property of Object.prototype
AnyFormats ==
  { <<>>, <<tContentLength>>, <<bracketed(tContentLength)>>,
    <<tResponseTime>>, <<tStatus>>, <<tRemoteAddress>>, <<tReferrer>>,
    <<tIncoming, tMethod, tUrl, tStatus, tResponseTime, tContentLength>>,
    <<lBogus>>, <<lConstructor>>, <<lToString>>, <<lValueOf>> }

\* a content-length header set as a string that holds no number
TextContentLengths ==
  { [set |-> TRUE, value |-> 0, text |-> TRUE, nan |-> TRUE] }

\* the responses: status unset or set, x-start-time missing or present,
\* content-length absent, a number, a decimal string, another string
AnyResponses ==
  { [statusCode |-> c, xStartTime |-> t, contentLength |-> h] :
      c \in { 0, 200, 204 },
      t \in { [set |-> FALSE, value |-> 0], [set |-> TRUE, value |-> 0] },
      h \in ContentLengths \cup TextContentLengths }

InitAny ==
  /\ parsedTokens = <<>>
  /\ plans = <<>>
  /\ compiled = <<>>
  /\ exchanges = [e \in Exchange |-> idleExchange]
  /\ sink = <<>>
  /\ now = 0
  /\ formatArg \in AnyFormats
  /\ thrown = <<>>

NextAny ==
  \/ Compile
  \/ \E req \in TextRequests \cup IpRequests :
       Len(plans) = 1 /\ thrown = <<>> /\ TokenRequest(req)
  \/ \E res \in AnyResponses, err \in Errors, event \in Events :
       Len(plans) = 1 /\ TokenResponse(urlRequestOf(res), res, err, event)

AnySpec == InitAny /\ [][NextAny]_vars

(***************************************************************************)
(* Middlewares made with an options argument                               *)
(***************************************************************************)

NextSink ==
  \/ \E options \in LoggerOptions : Logger(<<>>, options)
  \/ \E e \in Exchange, m \in 1..MaxLoggers, req \in Requests :
       Middleware(e, m, req)
  \/ \E e \in Exchange, event \in Events : Emit(e, event)

SinkSpec == Init /\ [][NextSink]_vars

(***************************************************************************)
(* Middlewares whose function option may throw                             *)
(***************************************************************************)

FailingOptions == { "function", ThrowingFunction }

NextFailing ==
  \/ \E options \in FailingOptions : Logger(<<>>, options)
  \/ \E e \in Exchange, m \in 1..MaxLoggers, req \in Requests :
       Middleware(e, m, req)
  \/ \E e \in Exchange, event \in Events : Emit(e, event)

FailingSpec == Init /\ [][NextFailing]_vars

(***************************************************************************)
(* Properties                                                              *)
(***************************************************************************)

\* the segment of the response-phase line sink[k] at the connector index
\* of its plan: the index counts the segments before the banner is put in
\* front
connectorOf(k) ==
  sink[k].string[compiled[sink[k].plan].plan.whereTheResponseIndicatorIs + 2]

\* the positions of the sink holding a line of exchange e in the phase
linesOf(e, phase) ==
  { k \in 1..Len(sink) : sink[k].exch = e /\ sink[k].phase = phase }

\* C1: an exchange has no response-phase line in the sink while its
\* response has emitted neither finish nor close, and exactly one from the
\* first of them on, printed by logResponse called with the name of the
\* event emitted first
ExactlyOnceResponse ==
  \A e \in Exchange :
    IF exchanges[e].emitted = <<>>
    THEN linesOf(e, "response") = {}
    ELSE /\ Cardinality(linesOf(e, "response")) = 1
         /\ \A k \in linesOf(e, "response") :
              /\ sink[k].event = exchanges[e].emitted[1]
              /\ (connectorOf(k).text = <<"-x-">>)
                    <=> (exchanges[e].emitted[1] = "close")

\* both events emitted, close first: one line, printed for close
ExactlyOnceResponseWitness ==
  \E e \in Exchange :
    /\ exchanges[e].emitted = <<"close", "finish">>
    /\ \E k \in linesOf(e, "response") : sink[k].event = "close"

\* C2: in the sink, every response-phase line of an exchange comes after
\* a request-phase line of the same exchange
RequestBeforeResponse ==
  \A k \in 1..Len(sink) :
    sink[k].phase = "response" =>
      \E i \in 1..(k - 1) :
        sink[i].phase = "request" /\ sink[i].exch = sink[k].exch

\* two exchanges in flight on one middleware, the later one answered first
RequestBeforeResponseWitness ==
  /\ Len(sink) = 4
  /\ sink[1].exch = 1 /\ sink[1].phase = "request"
  /\ sink[2].exch = 2 /\ sink[2].phase = "request"
  /\ sink[3].exch = 2 /\ sink[3].phase = "response"
  /\ sink[4].exch = 1 /\ sink[4].phase = "response"
  /\ sink[1].plan = sink[2].plan

\* C3: the closure state of every compile call (the two segment lists, the
\* two render-function lists, the connector index) is what it was when
\* compile returned
PlanImmutable ==
  \A m \in 1..Len(plans) : plans[m] = compiled[m].plan

\* C4: two lines printed by the same middleware in the same phase for
\* identical inputs (request, response, error, event, clock) are identical
SameInputsSameLine ==
  \A i, k \in 1..Len(sink) :
    ( /\ sink[i].plan = sink[k].plan
      /\ sink[i].phase = sink[k].phase
      /\ sink[i].event = sink[k].event
      /\ sink[i].req = sink[k].req
      /\ sink[i].res = sink[k].res
      /\ sink[i].err = sink[k].err
      /\ sink[i].now = sink[k].now )
    => sink[i].string = sink[k].string

\* every input of a direct call
RenderInputs ==
  [req : Requests, res : Responses, err : Errors, event : Events]

\* C5: a plan compiled on a cache miss and a plan compiled from the same
\* format string on a cache hit print identical request-phase lines and
\* identical response-phase lines for identical inputs
ColdAndHitRenderAlike ==
  \A p, q \in 1..Len(plans) :
    ( /\ ~compiled[p].hit
      /\ compiled[q].hit
      /\ compiled[p].format = compiled[q].format )
    => \A x \in RenderInputs :
         /\ logRequest(plans[p], x.req, x.res, x.err, now).string
              = logRequest(plans[q], x.req, x.res, x.err, now).string
         /\ logResponse(plans[p], x.req, x.res, x.err, x.event, now).string
              = logResponse(plans[q], x.req, x.res, x.err, x.event,
                            now).string

\* the connector text the priority rule gives: error, then close, then
\* status >= 500, then status 404, then ok
expectedConnector(x) ==
  IF x.err.present THEN <<"xxx">>
  ELSE IF x.event = "close" THEN <<"-x-">>
  ELSE IF x.res.statusCode >= 500 THEN <<"xxx">>
  ELSE IF x.res.statusCode = 404 THEN <<"-X-">>
  ELSE <<"-->">>

\* C6: in every response-phase line of a plan with a connector slot, the
\* segment written at the slot is the failed marker when an error is
\* present, else the client-aborted marker when the event is close, else
\* the failed marker when the status is 500 or more, else the not-found
\* marker when it is 404, else the ok marker
ConnectorPriority ==
  \A k \in 1..Len(sink) :
    ( /\ sink[k].phase = "response"
      /\ compiled[sink[k].plan].plan.whereTheResponseIndicatorIs
           # NoIndicator )
    => connectorOf(k).text = expectedConnector(sink[k])

\* a second render of a plan, with an error, the close event and status
\* 404 at once: the failed marker
ConnectorPriorityWitness ==
  /\ Len(sink) = 2
  /\ sink[1].plan = sink[2].plan
  /\ sink[1].phase = "response"
  /\ sink[2].phase = "response"
  /\ sink[2].err.present
  /\ sink[2].event = "close"
  /\ sink[2].res.statusCode = 404
  /\ connectorOf(2).text = <<"xxx">>

\* the texts of the directional connectors
connectorTexts == { <<"<--">>, <<"-->">>, <<"xxx">>, <<"-x-">>, <<"-X-">> }

\* C7: a plan has a connector slot exactly when its format string holds
\* the :incoming token, and without the token no line of the plan holds a
\* directional connector
ConnectorOnlyWithIncoming ==
  \A p \in 1..Len(plans) :
    LET present == \E i \in 1..Len(compiled[p].arg) :
                     stripBrackets(compiled[p].arg[i]) = tIncoming
    IN  /\ (plans[p].whereTheResponseIndicatorIs # NoIndicator) <=> present
        /\ ~present =>
             \A k \in 1..Len(sink) :
               sink[k].plan = p =>
                 \A i \in 1..Len(sink[k].string) :
                   sink[k].string[i].text \notin connectorTexts

\* the fragments of l other than x, in order
without(l, x) == filter(l, LAMBDA y : y # x)

RECURSIVE replays(_, _, _)
\* whether the lines of plan p in the sink, from position k on, are those
\* the closure state plan prints for the same calls, and the state it
\* ends in is that of plan p
replays(plan, p, k) ==
  IF k > Len(sink) THEN plan = plans[p]
  ELSE IF sink[k].plan # p THEN replays(plan, p, k + 1)
  ELSE LET x == sink[k]
           r == IF x.phase = "request"
                THEN logRequest(plan, x.req, x.res, x.err, x.now)
                ELSE logResponse(plan, x.req, x.res, x.err, x.event, x.now)
       IN  r.string = x.string /\ replays(r.plan, p, k + 1)

\* whether the compile call p behaved as a compile of the fragments l
compiledAs(p, l) ==
  LET parsed == parseTokens(formatOf(l))
      plan == compile(parsed)
  IN  /\ parsedTokens[compiled[p].format] = parsed
      /\ compiled[p].plan = plan
      /\ replays(plan, p, 1)

\* C8: a format string with the unknown token :bogus-token compiles, and
\* its cache entry, its plan and every line the plan prints are those of
\* the format string without that token
UnknownTokenDropped ==
  \A p \in 1..Len(plans) :
    includes(compiled[p].arg, lBogus) =>
      compiledAs(p, without(compiled[p].arg, lBogus))

\* a line of two values printed by a plan whose format string holds the
\* unknown token between two tokens
UnknownTokenDroppedWitness ==
  /\ formatArg = <<tMethod, lBogus, lBracketUrl>>
  /\ Len(sink) = 2
  /\ sink[1].phase = "request"
  /\ sink[2].phase = "response"
  /\ sink[1].plan = sink[2].plan

\* the texts of the segments that are not token values: the banner, the
\* phase markers, the connectors, a placeholder left without a value
fixedTexts ==
  connectorTexts
    \cup { <<" INCOMING ">>, <<" OUTGOING ">>, <<"%s">> }
    \cup { banner(req).text : req \in Requests }

\* the token values of a line, in the order they stand in it
valuesOf(string) == filter(string, LAMBDA c : c.text \notin fixedTexts)

\* the fragments of l that are tokens of the phase, in order
phaseTokens(l, isRequest) ==
  filter(l, LAMBDA t :
              stripBrackets(t) \in
                (IF isRequest THEN REQUEST_TOKENS ELSE RESPONSE_TOKENS))

\* C9: the token values of every line are, in order and with duplicates,
\* the values the render functions of the phase's tokens give for the
\* inputs of the call, taken in the order of the tokens in the format
\* string
ValuesInTokenOrder ==
  \A k \in 1..Len(sink) :
    LET x == sink[k]
        isRequest == x.phase = "request"
        tokens == phaseTokens(compiled[x.plan].arg, isRequest)
    IN  valuesOf(x.string)
          = [i \in 1..Len(tokens) |->
               interpolate(renderFn(tokens[i]), isRequest, x.req, x.res,
                           x.err, x.now)]

\* the second response-phase line of a plan whose format string has a
\* token on each side of :incoming: method then status
ValuesInTokenOrderWitness ==
  /\ formatArg = <<tMethod, tIncoming, tStatus>>
  /\ Len(sink) = 2
  /\ sink[1].phase = "response"
  /\ sink[2].phase = "response"
  /\ Len(valuesOf(sink[2].string)) = 2
  /\ valuesOf(sink[2].string)[1].text = <<"GET">>
  /\ valuesOf(sink[2].string)[2].text = <<ToString(sink[2].res.statusCode)>>

\* whether a segment of the line has the text of the literal
holdsLiteral(string, l) == \E i \in 1..Len(string) : string[i].text = l

\* C10 as stated: every line of a plan whose format string holds the
\* literal fragment | holds a segment with that text
LiteralsKept ==
  \A k \in 1..Len(sink) :
    includes(compiled[sink[k].plan].arg, lPipe)
      => holdsLiteral(sink[k].string, lPipe)

\* C10: a literal fragment that is no token name once its whitespace and
\* brackets are removed is dropped at compile time: the cache entry, the
\* plan and every line of a format string with the literal | are those of
\* the format string without it, and no line holds a segment with its text
LiteralsDropped ==
  \A p \in 1..Len(plans) :
    includes(compiled[p].arg, lPipe) =>
      /\ compiledAs(p, without(compiled[p].arg, lPipe))
      /\ \A k \in 1..Len(sink) :
           sink[k].plan = p => ~holdsLiteral(sink[k].string, lPipe)

\* both lines of a plan whose format string holds the literal between two
\* tokens: the banner, the connector and the two values, no more
LiteralsDroppedWitness ==
  /\ formatArg = <<tMethod, lPipe, lBracketUrl>>
  /\ Len(sink) = 2
  /\ sink[1].phase = "request"
  /\ sink[2].phase = "response"
  /\ Len(sink[1].string) = 4
  /\ Len(sink[2].string) = 4

\* the phases of the tokens, as documented
ResponseOnlyTokens == { tStatus, tResponseTime, tContentLength }
RequestOnlyTokens == { tRemoteAddress, tReferrer, tUserAgent, tHttpVersion }
BothPhasesTokens == { tMethod, tUrl, tDate }

\* 1 when the token belongs to the phase, else 0
placeholdersOf(t, isRequest) ==
  IF t \in BothPhasesTokens
       \/ (isRequest /\ t \in RequestOnlyTokens)
       \/ (~isRequest /\ t \in ResponseOnlyTokens)
  THEN 1 ELSE 0

\* the number of placeholders among the segments
countPlaceholders(output) ==
  Cardinality({ i \in 1..Len(output) : output[i] = placeholder })

\* C11: the plan of a format string of one token, bare or bracketed, has
\* one placeholder and one render function in each phase the token belongs
\* to and none in the other, and a line of the plan holds one value in the
\* first case and none in the second
PhaseMembership ==
  /\ \A p \in 1..Len(compiled) :
       LET t == tokenOf(compiled[p].arg)
           plan == compiled[p].plan
       IN  /\ Len(plan.requstArgs) = placeholdersOf(t, TRUE)
           /\ countPlaceholders(plan.requestOutput) = placeholdersOf(t, TRUE)
           /\ Len(plan.responseArgs) = placeholdersOf(t, FALSE)
           /\ countPlaceholders(plan.responseOutput)
                = placeholdersOf(t, FALSE)
  /\ \A k \in 1..Len(sink) :
       Len(valuesOf(sink[k].string))
         = placeholdersOf(tokenOf(compiled[sink[k].plan].arg),
                          sink[k].phase = "request")

\* a request-phase line of the plan of :[status]: the banner and the
\* connector, no value
PhaseMembershipWitness ==
  /\ formatArg = <<bracketed(tStatus)>>
  /\ Len(sink) = 1
  /\ sink[1].phase = "request"
  /\ Len(sink[1].string) = 2

\* the line the plan of the format string of fragments l prints first for
\* the call recorded in the sink entry x
firstLineOf(l, x) ==
  LET plan == compile(parseTokens(formatOf(l)))
  IN  IF x.phase = "request"
      THEN logRequest(plan, x.req, x.res, x.err, x.now).string
      ELSE logResponse(plan, x.req, x.res, x.err, x.event, x.now).string

\* C12: a line of the plan of :[t] is the line the plan of :t prints for
\* the same request, response, error, event and instant, but for the value
\* segment, which has the same colour and the same text between [ and ]
BracketFidelity ==
  \A k \in 1..Len(sink) :
    LET arg == compiled[sink[k].plan].arg
        bare == firstLineOf(<<tokenOf(arg)>>, sink[k])
        line == sink[k].string
    IN  hasBracket(arg[1]) =>
          /\ Len(line) = Len(bare)
          /\ \A i \in 1..Len(bare) :
               IF bare[i].text \in fixedTexts
               THEN line[i] = bare[i]
               ELSE line[i] = Cell(bare[i].color,
                                   <<"[">> \o bare[i].text \o <<"]">>)

\* :[status] rendered for an error that carries status 404: [404], in the
\* colour of 404
BracketFidelityWitness ==
  /\ formatArg = <<bracketed(tStatus)>>
  /\ Len(sink) = 1
  /\ sink[1].phase = "response"
  /\ sink[1].err = [present |-> TRUE, status |-> 404]
  /\ sink[1].string[3] = Cell("yellow", <<"[", "404", "]">>)

\* the status values a line can show
StatusValues == 0..999

\* the colour of a bucket as documented: 1 and 2 green, 3 cyan, 4 yellow,
\* 5 red, every other one the default
statedColor(bucket) ==
  CASE bucket \in { 1, 2 } -> "green"
    [] bucket = 3 -> "cyan"
    [] bucket = 4 -> "yellow"
    [] bucket = 5 -> "red"
    [] OTHER -> "yellow"

\* the colour of a bucket with the entry of the table for 7
tableColor(bucket) == IF bucket = 7 THEN "magenta" ELSE statedColor(bucket)

\* the lines of the sink that show a status: the response-phase lines of
\* the plans of :status and :[status]
statusLines ==
  { k \in 1..Len(sink) :
      /\ sink[k].phase = "response"
      /\ tokenOf(compiled[sink[k].plan].arg) = tStatus }

\* the status a value segment shows, brackets aside
shownStatus(cell) ==
  CHOOSE n \in StatusValues :
    cell.text \in { <<ToString(n)>>, <<"[", ToString(n), "]">> }

\* C13 as stated: the colour of the status segment is that of the bucket
\* floor(status / 100) of the status shown, every bucket other than 1 to 5
\* having the default colour
StatusColorAsStated ==
  \A k \in statusLines :
    LET cell == valuesOf(sink[k].string)[1]
    IN  cell.color = statedColor(shownStatus(cell) \div 100)

\* C13: the colour of the status segment is that of the bucket
\* floor(status / 100) of the status shown: green for 1 and 2, cyan for 3,
\* yellow for 4, red for 5, magenta for 7, yellow for every other bucket
StatusColorByBucket ==
  \A k \in statusLines :
    LET cell == valuesOf(sink[k].string)[1]
    IN  /\ \E n \in StatusValues :
             cell.text \in { <<ToString(n)>>, <<"[", ToString(n), "]">> }
        /\ cell.color = tableColor(shownStatus(cell) \div 100)

\* status 799 shown in magenta
StatusColorByBucketWitness ==
  /\ Len(sink) = 1
  /\ sink[1].phase = "response"
  /\ sink[1].string[3] = Cell("magenta", <<"799">>)

\* the effective status as documented: that of the error, 500 when it has
\* none, when an error is present; else that of the response, 404 when it
\* has none
statedStatus(x) ==
  IF x.err.present
  THEN (IF x.err.status = 0 THEN 500 ELSE x.err.status)
  ELSE (IF x.res.statusCode = 0 THEN 404 ELSE x.res.statusCode)

\* the byte sizes of the content-length values used, humanized in lowercase
statedBytes(n) ==
  CASE n = 0 -> <<"0", "b">>
    [] n = 512 -> <<"512", "b">>
    [] n = 1024 -> <<"1", "kb">>
    [] n = 1536 -> <<"1", ".", "5", "kb">>

\* the text of a value segment, brackets aside
unwrapped(text) ==
  IF Len(text) >= 2 /\ text[1] = "[" /\ text[Len(text)] = "]"
  THEN SubSeq(text, 2, Len(text) - 1)
  ELSE text

\* the concatenation of the pieces of a text
RECURSIVE joined(_)
joined(text) ==
  IF text = <<>> THEN <<>>
  ELSE (IF text[1] = "" THEN <<>> ELSE <<text[1]>>) \o joined(Tail(text))

\* C14 as stated: the content-length segment is empty when the effective
\* status is 204, 205 or 304, else "-" when the response has no
\* content-length header, else the humanized value of the header
ContentLengthAsStated ==
  \A k \in 1..Len(sink) :
    ( /\ sink[k].phase = "response"
      /\ tokenOf(compiled[sink[k].plan].arg) = tContentLength )
    => LET x == sink[k]
           shown == joined(unwrapped(valuesOf(x.string)[1].text))
       IN  shown = (IF statedStatus(x) \in { 204, 205, 304 } THEN <<>>
                    ELSE IF ~x.res.contentLength.set THEN <<"-">>
                    ELSE statedBytes(x.res.contentLength.value))

\* the response-phase lines of the plans of :status and :[status] printed
\* for an error
errorStatusLines == { k \in statusLines : sink[k].err.present }

\* C15 as stated: with an error the connector is the failed marker and the
\* status shown is one of 500 to 599, in the colour of bucket 5
ErrorIsFiveHundredClass ==
  \A k \in errorStatusLines :
    LET cell == valuesOf(sink[k].string)[1]
    IN  /\ connectorOf(k).text = <<"xxx">>
        /\ shownStatus(cell) \in 500..599
        /\ cell.color = "red"

\* C15: with an error the connector is the failed marker and the status
\* shown is that of the error, 500 when the error has none, in the colour
\* of its bucket, whatever the status code of the response
ErrorStatusPrecedence ==
  \A k \in errorStatusLines :
    LET cell == valuesOf(sink[k].string)[1]
        status == IF sink[k].err.status = 0 THEN 500 ELSE sink[k].err.status
    IN  /\ connectorOf(k) = Cell("red", <<"xxx">>)
        /\ unwrapped(cell.text) = <<ToString(status)>>
        /\ cell.color = tableColor(status \div 100)

\* an error without a status on a response of status 200 that finished:
\* the failed marker and 500 in red
ErrorStatusPrecedenceWitness ==
  /\ Len(sink) = 1
  /\ sink[1].phase = "response"
  /\ sink[1].event = "finish"
  /\ sink[1].res.statusCode = 200
  /\ sink[1].err = [present |-> TRUE, status |-> 0]
  /\ sink[1].string[2] = Cell("red", <<"xxx">>)
  /\ sink[1].string[3] = Cell("red", <<"500">>)

\* the response-phase lines of the plans of :response-time and
\* :[response-time] for a response that has its start header
timedLines ==
  { k \in 1..Len(sink) :
      /\ sink[k].phase = "response"
      /\ tokenOf(compiled[sink[k].plan].arg) = tResponseTime
      /\ sink[k].res.xStartTime.set }

\* C16: the colour of the response-time segment is green for an elapsed
\* time below 50 ms, magenta from 50 ms to below 100 ms, red from 100 ms
\* on, and the text is in ms below 10 s and in s from 10 s on
TimeColorByDelta ==
  \A k \in timedLines :
    LET cell == valuesOf(sink[k].string)[1]
        text == unwrapped(cell.text)
        delta == sink[k].now - sink[k].res.xStartTime.value
    IN  /\ cell.color = (IF delta < 50 THEN "green"
                         ELSE IF delta < 100 THEN "magenta"
                         ELSE "red")
        /\ text[Len(text)] = (IF delta < 10000 THEN "ms" ELSE "s")

\* 12499 ms shown as 12s, in red
TimeColorByDeltaWitness ==
  /\ Len(sink) = 1
  /\ sink[1].phase = "response"
  /\ sink[1].now = 12499
  /\ sink[1].string[3] = Cell("red", <<"12", "s">>)

\* the valid IPv4 and IPv6 literals among the addresses of IpRequests
ValidAddresses ==
  { aOctets(d) : d \in { "1", "2", "3", "4", "5", "6", "7", "8" } }
    \cup { aLoopback6 }

\* the first valid entry of each value of ForwardedValues, port stripped,
\* <<>> when it has none
statedForwarded(value) ==
  CASE value = aBad \o <<",", " ">> \o aWithPort("5") -> aOctets("5")
    [] value = <<" ">> \o aOctets("6") \o <<" ", ",">> \o aOctets("7")
         -> aOctets("6")
    [] value = aOutOfRange \o <<",">> \o aLoopback6 -> aLoopback6
    [] OTHER -> <<>>

\* the candidates of a request in the documented order
candidates(req) ==
  << req.xClientIp, statedForwarded(req.xForwardedFor), req.xRealIp,
     req.xForwarded, req.forwardedFor, req.socketRemoteAddress,
     req.connectionRemoteAddress >>

\* the first valid candidate, "-" when there is none
statedAddress(req) ==
  LET valid == { i \in 1..7 : candidates(req)[i] \in ValidAddresses }
  IN  IF valid = {} THEN <<"-">>
      ELSE candidates(req)[CHOOSE i \in valid : \A j \in valid : i <= j]

\* C17: the remote-address segment of a request-phase line is the first
\* valid candidate of the request in the documented order, "-" when none
\* is valid
ClientAddressPriority ==
  \A k \in 1..Len(sink) :
    ( /\ sink[k].phase = "request"
      /\ tokenOf(compiled[sink[k].plan].arg) = tRemoteAddress )
    => unwrapped(valuesOf(sink[k].string)[1].text)
         = statedAddress(sink[k].req)

\* x-client-ip invalid, x-forwarded-for "not-an-ip, 10.0.0.5:1234" and a
\* valid x-real-ip: 10.0.0.5
ClientAddressPriorityWitness ==
  /\ formatArg = <<tRemoteAddress>>
  /\ Len(sink) = 1
  /\ sink[1].req.xClientIp = aBad
  /\ sink[1].req.xForwardedFor = aBad \o <<",", " ">> \o aWithPort("5")
  /\ sink[1].req.xRealIp = aOctets("2")
  /\ sink[1].string[3].text = aOctets("5")

\* what receives the lines of a middleware made with the options
statedReceiver(options) ==
  CASE options = "function" -> "options"
    [] options = "transporterField" -> "options.transporter"
    [] OTHER -> "console.log"

\* C18: every line of a middleware is handed once to the function given as
\* options, or to the transporter function of the options object, with the
\* line as the compiler printed it and the raw arguments, which are that
\* line alone; without either it is written once with console.log; an
\* exchange has one request-phase line from the middleware call on, and one
\* response-phase line from its first event on
SinkAdapter ==
  /\ \A k \in 1..Len(sink) :
       /\ sink[k].via = statedReceiver(compiled[sink[k].plan].options)
       /\ sink[k].args = <<sink[k].string>>
       /\ sink[k].string[1] = banner(sink[k].req)
  /\ \A e \in Exchange :
       /\ Cardinality(linesOf(e, "request"))
            = (IF exchanges[e].stage = "idle" THEN 0 ELSE 1)
       /\ Cardinality(linesOf(e, "response"))
            = (IF exchanges[e].emitted = <<>> THEN 0 ELSE 1)

\* an exchange of a middleware made with { transporter }: its two lines
\* handed to options.transporter
SinkAdapterWitness ==
  /\ Len(sink) = 2
  /\ sink[1].exch = sink[2].exch
  /\ compiled[sink[1].plan].options = "transporterField"
  /\ sink[1].via = "options.transporter"
  /\ sink[2].via = "options.transporter"
  /\ sink[2].phase = "response"

\* the calls of one middleware invocation, in the order stated
statedCalls ==
  <<"setHeader", "logRequest", "once finish", "once close", "next">>

\* C19: for every exchange the middleware was called for, the calls made
\* are, in this order, the header with the start time, logRequest, once
\* for finish, once for close, next, and only then logResponse: the
\* request-phase line was printed once, from a response that holds the
\* start time of the call; one finish and one close listener are
\* registered while neither event was emitted; next was called once; and
\* nothing was called or printed for an exchange the middleware was not
\* called for
MiddlewareOrder ==
  \A e \in Exchange :
    LET x == exchanges[e]
    IN  IF x.stage = "idle"
        THEN /\ x.calls = <<>>
             /\ x.nextCalls = 0
             /\ linesOf(e, "request") \cup linesOf(e, "response") = {}
        ELSE /\ Len(x.calls) >= Len(statedCalls)
             /\ SubSeq(x.calls, 1, Len(statedCalls)) = statedCalls
             /\ \A i \in (Len(statedCalls) + 1)..Len(x.calls) :
                  x.calls[i] = "logResponse"
             /\ Cardinality(linesOf(e, "request")) = 1
             /\ \A k \in linesOf(e, "request") :
                  /\ sink[k].res.xStartTime = [set |-> TRUE,
                                               value |-> sink[k].now]
                  /\ sink[k].res.xStartTime = x.res.xStartTime
             /\ x.emitted = <<>> => x.listeners = <<"finish", "close">>
             /\ x.nextCalls = 1
             /\ Cardinality(linesOf(e, "response"))
                  = Len(x.calls) - Len(statedCalls)
             /\ \A k \in linesOf(e, "response") :
                  \A i \in linesOf(e, "request") : i < k

\* an exchange that started at time 1 and has finished: the five calls of
\* the middleware, then logResponse
MiddlewareOrderWitness ==
  \E e \in Exchange :
    /\ exchanges[e].calls = Append(statedCalls, "logResponse")
    /\ exchanges[e].res.xStartTime = [set |-> TRUE, value |-> 1]
    /\ exchanges[e].nextCalls = 1
    /\ exchanges[e].emitted = <<"finish">>

\* the formats added to the cache by a step
addedFormats == (DOMAIN parsedTokens') \ (DOMAIN parsedTokens)

\* C20: no step removes or replaces an entry of parsedTokens; a step adds
\* at most one entry, and only a step that compiles a format adds one, under
\* the format it compiled and with the tokens of that format
CacheAppendOnly ==
  [][/\ \A f \in DOMAIN parsedTokens :
          f \in DOMAIN parsedTokens' /\ parsedTokens'[f] = parsedTokens[f]
     /\ Cardinality(addedFormats) <= 1
     /\ \A f \in addedFormats :
          /\ Len(compiled') = Len(compiled) + 1
          /\ f = compiled'[Len(compiled')].format
          /\ ~compiled'[Len(compiled')].hit
          /\ parsedTokens'[f] = parseTokens(f)]_vars

\* two formats compiled one after the other: the cache holds the entry of
\* the first as it was made, and the entry of the second
CacheAppendOnlyWitness ==
  /\ Len(compiled) = 2
  /\ compiled[1].format # compiled[2].format
  /\ DOMAIN parsedTokens = { compiled[1].format, compiled[2].format }
  /\ parsedTokens[compiled[1].format] = parseTokens(compiled[1].format)
  /\ ~compiled[2].hit

\* C21: no call of compile, of logRequest or of logResponse throws,
\* whatever the format string, the request and the response
NothingThrows == thrown = <<>>

\* the texts of the token values of a line, in order
textsOf(string) ==
  [i \in 1..Len(valuesOf(string)) |-> valuesOf(string)[i].text]

\* the first segment of a line that is a connector, and the first that is
\* a token value (0 when there is none)
firstConnector(string) ==
  IF \E i \in 1..Len(string) : string[i].text \in connectorTexts
  THEN CHOOSE i \in 1..Len(string) :
         /\ string[i].text \in connectorTexts
         /\ \A j \in 1..(i - 1) : string[j].text \notin connectorTexts
  ELSE 0

firstValue(string) ==
  IF \E i \in 1..Len(string) : string[i].text \notin fixedTexts
  THEN CHOOSE i \in 1..Len(string) :
         /\ string[i].text \notin fixedTexts
         /\ \A j \in 1..(i - 1) : string[j].text \in fixedTexts
  ELSE 0

\* C22: a middleware made without a format (absent, null or "") has the
\* plan of the default format string ":incoming :method :url :status
\* :response-time :content-length"; each of its request-phase lines holds
\* the inbound connector, then the method and the url and no other value,
\* and each of its response-phase lines holds the connector of the outcome,
\* then the method, the url, the status, the elapsed time and the content
\* length and no other value
DefaultFormatLines ==
  \A m \in 1..Len(compiled) :
    compiled[m].arg = <<>> =>
      /\ compiled[m].format = DEFAULT_FORMAT
      /\ compiled[m].plan = compile(parseTokens(DEFAULT_FORMAT))
      /\ \A k \in 1..Len(sink) :
           sink[k].plan = m =>
             LET x == sink[k]
                 c == firstConnector(x.string)
                 method == <<x.req.method>>
                 url == <<orElse(x.req.originalUrl, x.req.url)>>
             IN  /\ c > 0
                 /\ c < firstValue(x.string)
                 /\ IF x.phase = "request"
                    THEN /\ x.string[c].text = <<"<--">>
                         /\ textsOf(x.string) = <<method, url>>
                    ELSE /\ x.string[c].text = expectedConnector(x)
                         /\ textsOf(x.string)
                              = <<method, url,
                                  <<ToString(x.res.statusCode)>>,
                                  <<ToString(x.now - x.res.xStartTime.value),
                                    "ms">>,
                                  <<"-">> >>

\* an exchange of a middleware made without a format, answered with 404
\* one millisecond after it arrived
DefaultFormatLinesWitness ==
  /\ Len(sink) = 2
  /\ compiled[sink[1].plan].arg = <<>>
  /\ sink[2].plan = sink[1].plan
  /\ sink[1].phase = "request"
  /\ sink[2].phase = "response"
  /\ textsOf(sink[1].string) = << <<"GET">>, <<"/users">> >>
  /\ sink[2].string[firstConnector(sink[2].string)].text = <<"-X-">>
  /\ textsOf(sink[2].string)
       = << <<"GET">>, <<"/users">>, <<"404">>, <<"1", "ms">>, <<"-">> >>

\* C23: in every state of every plan, each phase's segment list holds as
\* many placeholders as the phase has render functions
PlaceholdersMatchFunctions ==
  \A p \in 1..Len(plans) :
    /\ countPlaceholders(plans[p].requestOutput) = Len(plans[p].requstArgs)
    /\ countPlaceholders(plans[p].responseOutput)
         = Len(plans[p].responseArgs)

\* C24: a step that renders a response-phase line of a plan with a
\* connector slot writes the connector over a segment that is a connector:
\* the segment at the connector index, before the step, is never a
\* placeholder, a phase marker, a banner or a value
ConnectorWriteTarget ==
  [][\A p \in 1..Len(plans) :
       ( /\ plans'[p].responseOutput # plans[p].responseOutput
         /\ plans[p].whereTheResponseIndicatorIs # NoIndicator )
       => plans[p].responseOutput[plans[p].whereTheResponseIndicatorIs + 1]
            .text \in connectorTexts]_vars

\* the exchanges whose middleware call left with an exception
failedExchanges == { e \in Exchange : exchanges[e].stage = "failed" }

\* C25: an exchange of a middleware whose function option throws on the
\* request-phase line is left with the exception raised to the caller of
\* the middleware, next not called, no listener registered and, whatever
\* events its response emits afterwards, no response-phase line; an
\* exchange of a middleware whose option returns goes on as usual
SinkFailurePropagates ==
  /\ Len(thrown) = Cardinality(failedExchanges)
  /\ \A i \in 1..Len(thrown) : thrown[i] = "SinkError"
  /\ \A e \in Exchange :
       LET x == exchanges[e]
       IN  x.stage # "idle" =>
             IF sinkThrows(compiled[x.mw].options)
             THEN /\ x.stage = "failed"
                  /\ x.nextCalls = 0
                  /\ x.listeners = <<>>
                  /\ x.calls = <<"setHeader", "logRequest">>
                  /\ linesOf(e, "response") = {}
             ELSE /\ x.stage = "open"
                  /\ x.nextCalls = 1
                  /\ Cardinality(linesOf(e, "response"))
                       = (IF x.emitted = <<>> THEN 0 ELSE 1)

\* the option threw for an exchange whose response then emitted both
\* events: nothing was printed for them
SinkFailurePropagatesWitness ==
  \E e \in Exchange :
    /\ exchanges[e].stage = "failed"
    /\ Len(exchanges[e].emitted) = 2
    /\ linesOf(e, "response") = {}
    /\ thrown # <<>>

\* the place of :status among the values of a response-phase line of the
\* format string (0 when it has no :status)
statusPlace(fmt) ==
  LET tokens == phaseTokens(fragments(fmt), FALSE)
  IN  IF \E i \in 1..Len(tokens) : stripBrackets(tokens[i]) = tStatus
      THEN CHOOSE i \in 1..Len(tokens) : stripBrackets(tokens[i]) = tStatus
      ELSE 0

\* the connector given by the event and the status code alone
connectorWithoutError(event, statusCode) ==
  IF event = "close" THEN <<"-x-">>
  ELSE IF statusCode >= 500 THEN <<"xxx">>
  ELSE IF statusCode = 404 THEN <<"-X-">>
  ELSE <<"-->">>

\* C26: every line printed for an exchange of the middleware was rendered
\* with a null error, and in its response-phase lines the connector is the
\* one the event and response.statusCode give and the status is
\* response.statusCode, whatever status the handlers set
MiddlewareRendersWithoutError ==
  \A k \in 1..Len(sink) :
    LET x == sink[k]
        place == statusPlace(compiled[x.plan].format)
    IN  x.exch \in Exchange =>
          /\ ~x.err.present
          /\ x.phase = "response" =>
               /\ x.string[firstConnector(x.string)].text
                    = connectorWithoutError(x.event, x.res.statusCode)
               /\ place > 0 =>
                    valuesOf(x.string)[place]
                      = Cell(tableColor(x.res.statusCode \div 100),
                             <<ToString(x.res.statusCode)>>)

\* a handler answered 500: the failed marker and a red 500, from the
\* status code and not from an error
MiddlewareRendersWithoutErrorWitness ==
  \E k \in 1..Len(sink) :
    /\ sink[k].exch \in Exchange
    /\ sink[k].phase = "response"
    /\ sink[k].event = "finish"
    /\ sink[k].res.statusCode = 500
    /\ ~sink[k].err.present
    /\ sink[k].string[firstConnector(sink[k].string)].text = <<"xxx">>
    /\ \E i \in 1..Len(sink[k].string) :
         sink[k].string[i] = Cell("red", <<"500">>)

\* C27: in every step, for every exchange: a step in which the middleware
\* or its listener ran (a call was added) leaves the status code and the
\* content-length header of the response as they were; the x-start-time
\* header is stored by the middleware call, with the time of the call, and
\* never changed or cleared afterwards; the listeners of the middleware on
\* the response are none before the call, one for finish and one for close
\* from the call to the first event, and none from the first event on
ResponseFrame ==
  [][\A e \in Exchange :
       LET x == exchanges[e]
           y == exchanges'[e]
       IN  /\ y.calls # x.calls =>
                /\ y.res.statusCode = x.res.statusCode
                /\ y.res.contentLength = x.res.contentLength
           /\ x.res.xStartTime.set => y.res.xStartTime = x.res.xStartTime
           /\ y.res.xStartTime # x.res.xStartTime =>
                /\ x.stage = "idle"
                /\ y.stage # "idle"
                /\ y.res.xStartTime = [set |-> TRUE, value |-> now]
           /\ y.listeners
                = (IF y.stage = "idle" \/ y.emitted # <<>> THEN <<>>
                   ELSE <<"finish", "close">>)]_vars

\* an exchange whose handler answered 404 and whose response has finished:
\* the start time of its arrival still stored, no listener left
ResponseFrameWitness ==
  \E e \in Exchange :
    /\ exchanges[e].emitted = <<"finish">>
    /\ exchanges[e].listeners = <<>>
    /\ exchanges[e].res.statusCode = 404
    /\ exchanges[e].res.xStartTime = [set |-> TRUE, value |-> 0]
    /\ now = 1
    /\ linesOf(e, "response") # {}

=============================================================================
